---- MODULE Spec2Model ----
(***************************************************************************)
(* Churn ETL notebook (src/unnamed/part_001) and the consumer of its       *)
(* output (04.Analysis/03.Model_003.RandomForest).                         *)
(*                                                                         *)
(* The notebook is a sequence of cells run top to bottom over the global   *)
(* names data, col, num_stayed, num_exited, data_observations,             *)
(* data_dummied.  A cell that raises stops the run.  The cells modelled    *)
(* are the categorical significance tests (Geography, Gender,              *)
(* NumOfProducts), the feature engineering cell (one hot encoding and      *)
(* save) and the quality assurance cell (Spec, and SpecFault with          *)
(* corrupted indicator cells); chi2_test called on its own with a table    *)
(* (SpecChi2); the Age binning cell, the Age test cells and the HasCrCard  *)
(* cell (SpecAge; SpecOrder also runs them first in a fresh kernel); the   *)
(* missing values cell in front of the test cells (SpecValidate); and the  *)
(* feature selection and train/test split of the model notebook            *)
(* (SpecSplit).  The statistic is an integer number of millionths,         *)
(* rounded down cell by cell; the p-value is kept symbolic as              *)
(* sf(statistic, dof) and compared with alpha through the 0.05 quantiles.  *)
(*                                                                         *)
(* A dataframe is [columns, rows]: the column names in order and one       *)
(* function column -> value per row, in row order (the index is the        *)
(* RangeIndex 0..n-1 that read_excel gives).  A Series is [index, values]. *)
(***************************************************************************)
EXTENDS Integers, Sequences, FiniteSets, TLC

VARIABLES
    data,               \* the dataset loaded by ETL().load_data
    pc,                 \* the cell that runs next
    col,                \* global col of the notebook
    num_stayed,         \* global num_stayed (a bare .values array)
    num_exited,         \* global num_exited (a bare .values array)
    idx_stayed,         \* index labels of the Series num_stayed was taken from
    idx_exited,         \* index labels of the Series num_exited was taken from
    data_observations,  \* merged counts of the NumOfProducts cell
    alpha,              \* global alpha of the notebook, in hundredths
    chi2,               \* what the last chi2_test call returned
    report,             \* what the chi2_test calls printed, in call order
    data_dummied,       \* the one hot encoded dataset
    csv,                \* 02.Prepared_data/2020-01-26.One_hot_encoded.csv
    qa,                 \* output of the QA_dummied_features calls, in call order
    err,                \* the exception that stopped the run
    model_data,         \* data as read by Model_002().load_data
    flips,              \* indicator cells corrupted between encoding and QA
    data_bin,           \* the Age bins with their counts
    bin_edges,          \* global bin_edges of the Age binning cell
    split               \* X, y and the four parts of the model notebook

vars == <<data, pc, col, num_stayed, num_exited, idx_stayed, idx_exited,
          data_observations, alpha, chi2, report, data_dummied, csv, qa, err,
          model_data, flips, data_bin, bin_edges, split>>

(***************************************************************************)
(* Bounds of the model.                                                    *)
(***************************************************************************)
MaxRows == 4        \* rows of a dataset
MaxFaultRows == 2   \* rows of a dataset in the runs with corrupted cells
MaxFlips == 2       \* corrupted indicator cells per run
MaxCols == 3        \* columns of a table handed to chi2_test on its own
MaxCount == 1       \* largest count in such a table
MaxPairCount == 2   \* largest count in a table of two columns
MaxSplitRows == 4    \* rows of a dataset in the runs of the model notebook
MaxAgeRows == 2     \* rows of a dataset in the runs of the Age cells

(***************************************************************************)
(* Values.                                                                 *)
(***************************************************************************)
NaN == "NaN"        \* a missing value in an object column
NaNf == -1          \* a missing value in a numeric column (counts are >= 0)

ObjectCols == {"Geography", "Gender"}
Columns == <<"RowNumber", "Geography", "Gender", "NumOfProducts", "Exited">>

GenderLabels == {"Female", "Male"}
GeographyLabels == {"France", "Germany", "Spain"}
ProductLabels == {1, 2, 3}

\* The object labels of the model in the order Python sorts strings.
SortedObjectLabels == <<"Female", "France", "Germany", "Male", "Spain", "missing">>

Range(s) == {s[i] : i \in DOMAIN s}

\* Position of a label in the order sort_index / sorted categories use.
SortKey(c, label) ==
    IF c \in ObjectCols
    THEN CHOOSE i \in DOMAIN SortedObjectLabels : SortedObjectLabels[i] = label
    ELSE label

\* str(label) as f"{col}_{label}" and the prefix of get_dummies render it.
Str(c, label) == IF c \in ObjectCols THEN label ELSE ToString(label)

RECURSIVE SortByKey(_, _)
SortByKey(S, key) ==
    IF S = {} THEN <<>>
    ELSE LET m == CHOOSE x \in S : \A y \in S : key[x] <= key[y]
         IN  <<m>> \o SortByKey(S \ {m}, key)

RECURSIVE Sum(_)
Sum(s) == IF s = <<>> THEN 0 ELSE s[1] + Sum(Tail(s))

NoFrame == [columns |-> <<>>, rows |-> <<>>]

(***************************************************************************)
(* Arithmetic.  The products of the chi-squared statistic exceed the       *)
(* integers of the checker, so they are computed on naturals written as    *)
(* sequences of base-10000 digits, least significant digit first.          *)
(***************************************************************************)
Abs(x) == IF x < 0 THEN -x ELSE x

Digit(a) == IF a = <<>> THEN 0 ELSE a[1]

Rest(a) == IF a = <<>> THEN <<>> ELSE Tail(a)

RECURSIVE Big(_)
Big(n) == IF n = 0 THEN <<>> ELSE <<n % 10000>> \o Big(n \div 10000)

RECURSIVE BigToInt(_)
BigToInt(a) == IF a = <<>> THEN 0 ELSE a[1] + 10000 * BigToInt(Tail(a))

\* a + b + carry
RECURSIVE BigAdd(_, _, _)
BigAdd(a, b, carry) ==
    IF a = <<>> /\ b = <<>> THEN Big(carry)
    ELSE LET x == Digit(a) + Digit(b) + carry
         IN  <<x % 10000>> \o BigAdd(Rest(a), Rest(b), x \div 10000)

\* a * m + carry for m < 10000
RECURSIVE BigScale(_, _, _)
BigScale(a, m, carry) ==
    IF a = <<>> THEN Big(carry)
    ELSE LET x == a[1] * m + carry
         IN  <<x % 10000>> \o BigScale(Tail(a), m, x \div 10000)

\* a * m
RECURSIVE BigMul(_, _)
BigMul(a, m) ==
    IF m = 0 THEN <<>>
    ELSE BigAdd(BigScale(a, m % 10000, 0), <<0>> \o BigMul(a, m \div 10000), 0)

\* Quotient and remainder of a by d, for 0 < d <= 200000.
RECURSIVE BigDiv(_, _)
BigDiv(a, d) ==
    IF a = <<>> THEN [q |-> <<>>, r |-> 0]
    ELSE LET hi == BigDiv(Tail(a), d)
             cur == hi.r * 10000 + a[1]
         IN  [q |-> <<cur \div d>> \o hi.q, r |-> cur % d]

\* -1, 0 or 1 as a is less than, equal to or greater than b.
RECURSIVE BigCmp(_, _)
BigCmp(a, b) ==
    IF a = <<>> /\ b = <<>> THEN 0
    ELSE LET hi == BigCmp(Rest(a), Rest(b))
         IN  IF hi # 0 THEN hi
             ELSE IF Digit(a) < Digit(b) THEN -1
             ELSE IF Digit(a) > Digit(b) THEN 1 ELSE 0

(***************************************************************************)
(* pandas                                                                  *)
(***************************************************************************)
\* df[c].values
Values(df, c) == [i \in 1..Len(df.rows) |-> df.rows[i][c]]

\* df[df[c] == v]
Where(df, c, v) ==
    [columns |-> df.columns, rows |-> SelectSeq(df.rows, LAMBDA r : r[c] = v)]

isnull(c, v) == c \in ObjectCols /\ v = NaN

Count(vals, v) == Cardinality({i \in DOMAIN vals : vals[i] = v})

FirstPos(vals, v) ==
    CHOOSE i \in DOMAIN vals : vals[i] = v /\ \A j \in 1..(i - 1) : vals[j] # v

\* The distinct non-null labels of df[c].
Labels(df, c) ==
    LET vals == Values(df, c)
    IN  {vals[i] : i \in {j \in DOMAIN vals : ~isnull(c, vals[j])}}

\* df[c].value_counts(): the non-null labels with their counts, the most
\* frequent first (equal counts in order of first appearance).
value_counts(df, c) ==
    LET vals == Values(df, c)
        n == Len(vals)
        L == Labels(df, c)
        key == [l \in L |-> (n - Count(vals, l)) * (n + 1) + FirstPos(vals, l)]
        idx == SortByKey(L, key)
    IN  [index |-> idx, values |-> [i \in DOMAIN idx |-> Count(vals, idx[i])]]

\* s.loc[label]
loc(s, label) == s.values[CHOOSE i \in DOMAIN s.index : s.index[i] = label]

\* s.sort_index() of a Series indexed by the labels of column c.
sort_index(s, c) ==
    LET L == Range(s.index)
        idx == SortByKey(L, [l \in L |-> SortKey(c, l)])
    IN  [index |-> idx, values |-> [i \in DOMAIN idx |-> loc(s, idx[i])]]

\* Mutant of pd_get_dummies: a null is encoded as the first category.
pd_get_dummies_fill(df, c) ==
    LET vals == Values(df, c)
        L == {vals[i] : i \in {j \in DOMAIN vals : ~(c \in ObjectCols /\ vals[j] = NaN)}}
        cats == SortByKey(L, [l \in L |-> SortKey(c, l)])
        names == [i \in DOMAIN cats |-> c \o "_" \o Str(c, cats[i])]
    IN  [columns |-> names,
         rows |-> [r \in DOMAIN vals |->
                     [n \in Range(names) |->
                        IF \E i \in DOMAIN cats :
                              /\ names[i] = n
                              /\ \/ cats[i] = vals[r]
                                 \/ i = 1 /\ c \in ObjectCols /\ vals[r] = NaN
                        THEN 1 ELSE 0]]]

\* Mutant of pd_get_dummies: drop_first=True.
pd_get_dummies_drop_first(df, c) ==
    LET vals == Values(df, c)
        L == {vals[i] : i \in {j \in DOMAIN vals : ~(c \in ObjectCols /\ vals[j] = NaN)}}
        cats == SortByKey(L, [l \in L |-> SortKey(c, l)])
        names == [i \in DOMAIN cats |-> c \o "_" \o Str(c, cats[i])]
        rest == SubSeq(names, 2, Len(names))
    IN  [columns |-> rest,
         rows |-> [r \in DOMAIN vals |->
                     [n \in Range(rest) |->
                        IF \E i \in DOMAIN cats : names[i] = n /\ cats[i] = vals[r]
                        THEN 1 ELSE 0]]]

\* pd.get_dummies(df[c], prefix=c): one column per observed label, in sorted
\* label order; a null row gets 0 everywhere (dummy_na is False).
pd_get_dummies(df, c) ==
    LET vals == Values(df, c)
        L == Labels(df, c)
        cats == SortByKey(L, [l \in L |-> SortKey(c, l)])
        names == [i \in DOMAIN cats |-> c \o "_" \o Str(c, cats[i])]
    IN  [columns |-> names,
         rows |-> [r \in DOMAIN vals |->
                     [n \in Range(names) |->
                        IF \E i \in DOMAIN cats : names[i] = n /\ cats[i] = vals[r]
                        THEN 1 ELSE 0]]]

\* Mutant of pd_concat: rows that are 0 in every column of b are dropped.
pd_concat_dropna(a, b) ==
    LET keep == SelectSeq([i \in DOMAIN a.rows |-> i],
                          LAMBDA i : \E n \in Range(b.columns) : b.rows[i][n] # 0)
    IN  [columns |-> a.columns \o b.columns,
         rows |-> [k \in DOMAIN keep |->
                     [n \in Range(a.columns) \cup Range(b.columns) |->
                        IF n \in Range(b.columns)
                        THEN b.rows[keep[k]][n] ELSE a.rows[keep[k]][n]]]]

\* pd.concat([a, b], axis=1) of two frames over the same index.
pd_concat(a, b) ==
    [columns |-> a.columns \o b.columns,
     rows |-> [i \in DOMAIN a.rows |->
                 [n \in Range(a.columns) \cup Range(b.columns) |->
                    IF n \in Range(b.columns) THEN b.rows[i][n] ELSE a.rows[i][n]]]]

\* df.drop(c, axis=1)
drop(df, c) ==
    [columns |-> SelectSeq(df.columns, LAMBDA n : n # c),
     rows |-> [i \in DOMAIN df.rows |->
                 [n \in Range(df.columns) \ {c} |-> df.rows[i][n]]]]

\* Mutant of pd_merge_outer: how='inner', only the keys of both sides.
pd_merge_inner(left, right, c) ==
    LET keys == Range(left.index) \cap Range(right.index)
        idx == SortByKey(keys, [k \in keys |-> SortKey(c, k)])
    IN  [index |-> idx,
         exited |-> [i \in DOMAIN idx |-> loc(left, idx[i])],
         stayed |-> [i \in DOMAIN idx |-> loc(right, idx[i])]]

\* pd.merge(left, right, left_index=True, right_index=True, how='outer') of
\* the one-column frames of exited and stayed counts: the union of the keys,
\* sorted, with NaN where a key is missing on one side.
pd_merge_outer(left, right, c) ==
    LET keys == Range(left.index) \cup Range(right.index)
        idx == SortByKey(keys, [k \in keys |-> SortKey(c, k)])
    IN  [index |-> idx,
         exited |-> [i \in DOMAIN idx |->
                       IF idx[i] \in Range(left.index) THEN loc(left, idx[i]) ELSE NaNf],
         stayed |-> [i \in DOMAIN idx |->
                       IF idx[i] \in Range(right.index) THEN loc(right, idx[i]) ELSE NaNf]]

\* obs.fillna(v)
fillna(obs, v) ==
    [index |-> obs.index,
     exited |-> [i \in DOMAIN obs.exited |-> IF obs.exited[i] = NaNf THEN v ELSE obs.exited[i]],
     stayed |-> [i \in DOMAIN obs.stayed |-> IF obs.stayed[i] = NaNf THEN v ELSE obs.stayed[i]]]

\* dataframe.to_csv(path): a header line with an empty first cell, then one
\* line per row starting with the index; a null is written as the empty string.
to_csv(df) ==
    [exists |-> TRUE,
     header |-> <<"">> \o df.columns,
     lines |-> [i \in DOMAIN df.rows |->
                  [index |-> i - 1,
                   cells |-> [n \in Range(df.columns) |->
                                IF isnull(n, df.rows[i][n]) THEN "" ELSE df.rows[i][n]]]]]

NoFile == [exists |-> FALSE, header |-> <<>>, lines |-> <<>>]

\* pd.read_csv(path, index_col=0): the first column becomes the index, an
\* empty cell is read as null.
read_csv(f) ==
    [columns |-> Tail(f.header),
     rows |-> [i \in DOMAIN f.lines |->
                 [n \in Range(Tail(f.header)) |->
                    IF n \in ObjectCols /\ f.lines[i].cells[n] = ""
                    THEN NaN ELSE f.lines[i].cells[n]]]]

(***************************************************************************)
(* class ETL                                                               *)
(***************************************************************************)
\* Mutant of get_dummies: the caller's dataframe is changed in place.
get_dummies_inplace(df, colname) ==
    LET df2 == drop(pd_concat(df, pd_get_dummies(df, colname)), colname)
    IN  [arg |-> df2, ret |-> df2]

\* ETL.get_dummies(df, colname).  arg is the caller's dataframe as it is after
\* the call, ret the returned dataframe: concat and drop build new frames and
\* only rebind the local name df.
get_dummies(df, colname) ==
    LET df_dummy == pd_get_dummies(df, colname)
        df1 == pd_concat(df, df_dummy)
        df2 == drop(df1, colname)
    IN  [arg |-> df, ret |-> df2]

\* ETL.save_data_prepared(dataframe, filename)
save_data_prepared(dataframe) == to_csv(dataframe)

\* Model_002.load_data(fname)
load_data(f) == read_csv(f)

(***************************************************************************)
(* chi2_test: f_obs = np.asarray([obs_exited, obs_stayed]) and              *)
(* stats.chi2_contingency(f_obs).  Vectors of different length give no 2-D  *)
(* array and the call raises.                                               *)
(*                                                                         *)
(* Floats: the statistic is kept in millionths, rounded down cell by cell   *)
(* (the value lies less than one millionth per cell above it); NaNf is nan. *)
(* A p-value is kept as the point of the chi-squared survival function it   *)
(* is, sf(statistic, dof), and compared with alpha through the quantiles    *)
(* of the distribution.  alpha is in hundredths: 5 is 0.05.                 *)
(***************************************************************************)
Raised(type, args) == [raised |-> type, args |-> args, ret |-> <<>>]
Returned(ret) == [raised |-> "", args |-> <<>>, ret |-> ret]

\* How the installed scipy applies the continuity correction to a table with
\* one degree of freedom: "half" moves every observed value by 0.5 towards
\* its expected value, "clip" by 0.5 but never past the expected value.
Corrections == {"half", "clip"}

\* stats.chi2.sf(x, df)
sf(x, df) == [x |-> x, df |-> df]

\* The 0.05 quantiles stats.chi2.isf(0.05, df) for df = 1..15, in millionths.
chi2_isf05 ==
    <<3841458, 5991464, 7814727, 9487729, 11070497, 12591587, 14067140,
      15507313, 16918977, 18307038, 19675137, 21026069, 22362032, 23684791,
      24995790>>

\* p < alpha for a p-value p.  nan < alpha is False; sf is 1.0 at 0 and lies
\* strictly between 0 and 1 elsewhere; alpha is 5 or at least 100.
p_lt(p, a) ==
    IF p.x = NaNf THEN FALSE
    ELSE IF p.x = 0 THEN 100 < a
    ELSE IF a >= 100 THEN TRUE
    ELSE p.x > chi2_isf05[p.df]

\* Mutant of expected_freq: the rows of the table are exchanged.
expected_freq_exchanged(observed) ==
    LET k == Len(observed[1])
        n == Sum(observed[1]) + Sum(observed[2])
    IN  [i \in 1..2 |->
           [j \in 1..k |->
              [num |-> Sum(observed[3 - i]) * (observed[1][j] + observed[2][j]),
               den |-> n]]]

\* contingency.expected_freq(observed): row total * column total / total,
\* as fractions; 0/0 is nan.
expected_freq(observed) ==
    LET k == Len(observed[1])
        n == Sum(observed[1]) + Sum(observed[2])
    IN  [i \in 1..2 |->
           [j \in 1..k |->
              [num |-> Sum(observed[i]) * (observed[1][j] + observed[2][j]),
               den |-> n]]]

\* Mutant of zero_expected: any observed zero counts.
zero_observed(observed, ex) ==
    \E i \in 1..2, j \in 1..Len(observed[1]) : observed[i][j] = 0

\* np.any(expected == 0): a zero row total or column total under a positive
\* grand total.
zero_expected(observed, ex) ==
    \E i \in 1..2, j \in 1..Len(observed[1]) : ex[i][j].num = 0 /\ ex[i][j].den # 0

\* Mutant of degrees_of_freedom: columns that are zero in one row are not
\* counted.
degrees_of_freedom_nonzero(observed) ==
    LET full == {j \in 1..Len(observed[1]) : observed[1][j] # 0 /\ observed[2][j] # 0}
    IN  IF full = {} THEN 0 ELSE Cardinality(full) - 1

\* dof = expected.size - sum(expected.shape) + expected.ndim - 1
degrees_of_freedom(observed) ==
    2 * Len(observed[1]) - (2 + Len(observed[1])) + 2 - 1

\* Mutant of Deviation: no continuity correction.
Deviation_uncorrected(O, E, correction) == 2 * Abs(O * E.den - E.num)

\* Mutant of Deviation: the continuity correction whatever the degrees of
\* freedom.
Deviation_corrected(O, E, correction) ==
    LET d2 == 2 * Abs(O * E.den - E.num)
    IN  IF d2 = 0 THEN 0 ELSE Abs(d2 - E.den)

\* 2 * total * |observed - expected| of a cell, after the adjustment of the
\* observed value by the continuity correction.
Deviation(O, E, correction) ==
    LET d2 == 2 * Abs(O * E.den - E.num)
    IN  IF correction = "none" THEN d2
        ELSE IF correction = "half" THEN (IF d2 = 0 THEN 0 ELSE Abs(d2 - E.den))
        ELSE IF d2 <= E.den THEN 0 ELSE d2 - E.den

\* (observed - expected)^2 / expected of a cell with expected value
\* r * c / n and deviation dn = 2 * n * |observed - expected|, in millionths:
\* 10^6 * dn^2 / (4 * n * r * c), rounded down.
Term(dn, n, r, c) ==
    IF dn <= 40 /\ n <= 500 /\ r <= 500 /\ c <= 500
    THEN (dn * dn * 1000000) \div (4 * n * r * c)
    ELSE BigToInt(BigDiv(BigDiv(BigDiv(BigMul(BigMul(Big(dn), dn), 1000000),
                                       4 * n).q, r).q, c).q)

\* Mutant of power_divergence: the continuity correction is applied to every
\* table.
power_divergence_yates(observed, ex, correction) ==
    LET k == Len(observed[1])
        n == ex[1][1].den
        fix == IF correction = "none" THEN "half" ELSE correction
        terms == [m \in 1..(2 * k) |->
                    LET i == ((m - 1) \div k) + 1
                        j == ((m - 1) % k) + 1
                    IN  Term(Deviation(observed[i][j], ex[i][j], fix), n,
                             Sum(observed[i]), observed[1][j] + observed[2][j])]
    IN  Sum(terms)

\* power_divergence(observed, expected, lambda_=1): the sum over all cells of
\* (observed - expected)^2 / expected.
power_divergence(observed, ex, correction) ==
    LET k == Len(observed[1])
        n == ex[1][1].den
        terms == [m \in 1..(2 * k) |->
                    LET i == ((m - 1) \div k) + 1
                        j == ((m - 1) % k) + 1
                    IN  Term(Deviation(observed[i][j], ex[i][j], correction), n,
                             Sum(observed[i]), observed[1][j] + observed[2][j])]
    IN  Sum(terms)

\* stats.chi2_contingency(observed) of a table of two rows.  It raises on an
\* empty table and on an expected frequency that is zero; nan == 0 is False,
\* so the table of zeros, whose expected frequencies are all nan, passes.
chi2_contingency(observed, build) ==
    LET k == Len(observed[1])
        ex == expected_freq(observed)
        dof == degrees_of_freedom(observed)
    IN  IF k = 0
        THEN Raised("ValueError", <<"No data; observed has size 0.">>)
        ELSE IF zero_expected(observed, ex)
        THEN Raised("ValueError", <<"expected frequencies has a zero element">>)
        ELSE LET chi2_stat ==
                     IF dof = 0 THEN 0
                     ELSE IF ex[1][1].den = 0 THEN NaNf
                     ELSE power_divergence(observed, ex,
                                           IF dof = 1 THEN build ELSE "none")
             IN  Returned([chi2_stat |-> chi2_stat,
                           p_value |-> sf(chi2_stat, dof),
                           n_dof |-> dof,
                           ex |-> ex])

NoChi2 ==
    [f_obs |-> <<>>, chi2_stat |-> 0, p_value |-> sf(0, 0), n_dof |-> 0,
     ex |-> <<>>, printed |-> <<>>]

\* Mutant of chi2_test: the branches of the decision are exchanged.
chi2_test_inverted(obs_stayed, obs_exited, a, verbose, build) ==
    IF Len(obs_stayed) # Len(obs_exited)
    THEN Raised("ValueError", <<"inhomogeneous shape">>)
    ELSE LET f_obs == <<obs_exited, obs_stayed>>
             r == chi2_contingency(f_obs, build)
         IN  IF r.raised # "" THEN r
             ELSE Returned(
                    [f_obs |-> f_obs,
                     chi2_stat |-> r.ret.chi2_stat,
                     p_value |-> r.ret.p_value,
                     n_dof |-> r.ret.n_dof,
                     ex |-> r.ret.ex,
                     printed |->
                        IF verbose = 1
                        THEN <<[chi2_stat |-> r.ret.chi2_stat,
                                p_value |-> r.ret.p_value,
                                n_dof |-> r.ret.n_dof,
                                ex |-> r.ret.ex,
                                alpha |-> a,
                                null_hypothesis |->
                                   IF p_lt(r.ret.p_value, a)
                                   THEN "not rejected" ELSE "rejected"]>>
                        ELSE <<>>])

\* chi2_test(obs_stayed, obs_exited, alpha, verbose).  With verbose == 1 it
\* prints the four results and then one of the two decision lines; printed
\* is what it wrote to the output of the cell.
chi2_test(obs_stayed, obs_exited, a, verbose, build) ==
    IF Len(obs_stayed) # Len(obs_exited)
    THEN Raised("ValueError", <<"inhomogeneous shape">>)
    ELSE LET f_obs == <<obs_exited, obs_stayed>>
             r == chi2_contingency(f_obs, build)
         IN  IF r.raised # "" THEN r
             ELSE Returned(
                    [f_obs |-> f_obs,
                     chi2_stat |-> r.ret.chi2_stat,
                     p_value |-> r.ret.p_value,
                     n_dof |-> r.ret.n_dof,
                     ex |-> r.ret.ex,
                     printed |->
                        IF verbose = 1
                        THEN <<[chi2_stat |-> r.ret.chi2_stat,
                                p_value |-> r.ret.p_value,
                                n_dof |-> r.ret.n_dof,
                                ex |-> r.ret.ex,
                                alpha |-> a,
                                null_hypothesis |->
                                   IF p_lt(r.ret.p_value, a)
                                   THEN "rejected" ELSE "not rejected"]>>
                        ELSE <<>>])

(***************************************************************************)
(* QA_dummied_features(data, data_dummied, col): for every label of        *)
(* data[col].value_counts(), in that order, print the label with both      *)
(* counts, then assert they are equal.  The assert has no message.          *)
(***************************************************************************)
\* Mutant of QA_loop: the counts are printed but not asserted.
RECURSIVE QA_loop_no_assert(_, _, _, _, _)
QA_loop_no_assert(labels, counts, dummied, c, lines) ==
    IF labels = <<>>
    THEN [col |-> c, lines |-> lines, raised |-> "", args |-> <<>>]
    ELSE LET label == Head(labels)
             name == c \o "_" \o Str(c, label)
         IN  IF name \notin Range(dummied.columns)
             THEN [col |-> c, lines |-> lines, raised |-> "KeyError", args |-> <<name>>]
             ELSE QA_loop_no_assert(Tail(labels), counts, dummied, c,
                     Append(lines, [label |-> label,
                                    original_count |-> loc(counts, label),
                                    dummied_count |-> Sum(Values(dummied, name))]))

RECURSIVE QA_loop(_, _, _, _, _)
QA_loop(labels, counts, dummied, c, lines) ==
    IF labels = <<>>
    THEN [col |-> c, lines |-> lines, raised |-> "", args |-> <<>>]
    ELSE LET label == Head(labels)
             name == c \o "_" \o Str(c, label)
         IN  IF name \notin Range(dummied.columns)
             THEN [col |-> c, lines |-> lines, raised |-> "KeyError", args |-> <<name>>]
             ELSE LET dummied_count == Sum(Values(dummied, name))
                      original_count == loc(counts, label)
                      out == Append(lines, [label |-> label,
                                            original_count |-> original_count,
                                            dummied_count |-> dummied_count])
                  IN  IF original_count = dummied_count
                      THEN QA_loop(Tail(labels), counts, dummied, c, out)
                      ELSE [col |-> c, lines |-> out,
                            raised |-> "AssertionError", args |-> <<>>]

QA_dummied_features(dat, dummied, c) ==
    QA_loop(value_counts(dat, c).index, value_counts(dat, c), dummied, c, <<>>)

(***************************************************************************)
(* Initial state: a dataset has been loaded, no cell below it has run.     *)
(***************************************************************************)
NoError == [cell |-> "", type |-> "", args |-> <<>>]

\* X, y and the parts before the cell of the model notebook has run
NoSplit == [X |-> NoFrame]

\* data_bin before the Age cell has run
NoBins == [age_range |-> <<>>]

\* The dataframe of the given rows; RowNumber numbers them from 1.
Frame(seq) ==
    [columns |-> Columns,
     rows |-> [i \in DOMAIN seq |->
                 [n \in Range(Columns) |->
                    IF n = "RowNumber" THEN i ELSE seq[i][n]]]]

\* Datasets that vary Geography and the outcome.
GeographyRows ==
    [Geography : GeographyLabels, Gender : {"Female"},
     NumOfProducts : {1}, Exited : {0, 1}]

\* Datasets that vary one tested feature; the outcome alternates from row to
\* row.
GenderRows ==
    [Geography : {"France"}, Gender : GenderLabels \cup {NaN}, NumOfProducts : {1}]

ProductRows ==
    [Geography : {"France"}, Gender : {"Female"}, NumOfProducts : ProductLabels]

AlternatingRows(s) ==
    [i \in DOMAIN s |->
       [Geography |-> s[i].Geography, Gender |-> s[i].Gender,
        NumOfProducts |-> s[i].NumOfProducts, Exited |-> i % 2]]

\* Datasets that vary both encoded columns, with and without a missing
\* Gender; the outcome alternates from row to row.
EncodedPairs == [Geography : {"France", "Spain"}, Gender : GenderLabels \cup {NaN}]

MixedRows(s) ==
    [i \in DOMAIN s |->
       [Geography |-> s[i].Geography, Gender |-> s[i].Gender,
        NumOfProducts |-> 1, Exited |-> i % 2]]

\* The datasets of the given rows, up to n rows.
LoadFrom(Rows, n) == \E k \in 0..n : \E s \in [1..k -> Rows] : data = Frame(s)

LoadAlternating(Rows, n) ==
    \E k \in 0..n : \E s \in [1..k -> Rows] : data = Frame(AlternatingRows(s))

LoadMixed(n) == \E k \in 0..n : \E s \in [1..k -> EncodedPairs] : data = Frame(MixedRows(s))

InitNames ==
    /\ col = ""
    /\ num_stayed = <<>>
    /\ num_exited = <<>>
    /\ idx_stayed = <<>>
    /\ idx_exited = <<>>
    /\ data_observations = [index |-> <<>>, exited |-> <<>>, stayed |-> <<>>]
    /\ alpha = 0
    /\ chi2 = NoChi2
    /\ report = <<>>
    /\ data_dummied = NoFrame
    /\ csv = NoFile
    /\ qa = <<>>
    /\ err = NoError
    /\ model_data = NoFrame
    /\ flips = 0
    /\ data_bin = NoBins
    /\ bin_edges = <<>>
    /\ split = NoSplit

InitRest == pc = "Geography" /\ InitNames

Init ==
    /\ \/ LoadFrom(GeographyRows, MaxRows)
       \/ LoadAlternating(GenderRows, MaxRows)
       \/ LoadAlternating(ProductRows, MaxRows)
       \/ LoadMixed(MaxRows)
    /\ InitRest

InitFault == LoadMixed(MaxFaultRows) /\ InitRest

(***************************************************************************)
(* Cells                                                                   *)
(***************************************************************************)
\* The end of a test cell: chi2_test either raises, which stops the run, or
\* returns, and its results are bound.
RunChi2(cell, next) ==
    \E build \in Corrections :
       LET r == IF alpha' = 0
                THEN Raised("NameError", <<"name 'alpha' is not defined">>)
                ELSE chi2_test(num_stayed', num_exited', alpha', 1, build)
       IN  IF r.raised # ""
           THEN /\ err' = [cell |-> cell, type |-> r.raised, args |-> r.args]
                /\ pc' = "halted"
                /\ UNCHANGED <<chi2, report>>
           ELSE /\ chi2' = r.ret
                /\ report' = report \o r.ret.printed
                /\ pc' = next
                /\ UNCHANGED err

\* Cells 2.2.1 and 2.2.2: two separate value_counts().sort_index().values.
\* (plot_categorical_AB_test only reads data and draws.)
TestCategorical(c, next) ==
    /\ pc = c
    /\ LET s == sort_index(value_counts(Where(data, "Exited", 0), c), c)
           e == sort_index(value_counts(Where(data, "Exited", 1), c), c)
       IN  /\ col' = c
           /\ alpha' = 5
           /\ num_stayed' = s.values
           /\ num_exited' = e.values
           /\ idx_stayed' = s.index
           /\ idx_exited' = e.index
    /\ RunChi2(c, next)
    /\ UNCHANGED <<data, data_observations, data_dummied, csv, qa, model_data,
                   flips, data_bin, bin_edges, split>>

TestGeography == TestCategorical("Geography", "Gender")

TestGender == TestCategorical("Gender", "NumOfProducts")

\* Cell 2.2.4: the counts of both groups are outer-merged on the label.
TestNumOfProducts ==
    /\ pc = "NumOfProducts"
    /\ LET c == "NumOfProducts"
           s_stayed == value_counts(Where(data, "Exited", 0), c)
           s_exited == value_counts(Where(data, "Exited", 1), c)
           merged == fillna(pd_merge_outer(s_exited, s_stayed, c), 0)
       IN  /\ col' = c
           /\ alpha' = 5
           /\ data_observations' = merged
           /\ num_stayed' = merged.stayed
           /\ num_exited' = merged.exited
           /\ idx_stayed' = merged.index
           /\ idx_exited' = merged.index
    /\ RunChi2("NumOfProducts", "FeatureEngineering")
    /\ UNCHANGED <<data, data_dummied, csv, qa, model_data, flips, data_bin, bin_edges, split>>

\* Cell 2.3: encode Gender, then Geography, and save the result.
FeatureEngineering ==
    /\ pc = "FeatureEngineering"
    /\ LET g == get_dummies(data, "Gender")
           y == get_dummies(g.ret, "Geography")
       IN  /\ data' = g.arg
           /\ data_dummied' = y.ret
           /\ csv' = save_data_prepared(y.ret)
    /\ pc' = "QA"
    /\ UNCHANGED <<col, num_stayed, num_exited, idx_stayed, idx_exited,
                   data_observations, alpha, chi2, report, qa, err, model_data,
                   flips, data_bin, bin_edges, split>>

\* Cell 2.4: QA of Gender, then of Geography; a failed assert stops the run.
QualityAssurance ==
    /\ pc = "QA"
    /\ LET g == QA_dummied_features(data, data_dummied, "Gender")
           y == QA_dummied_features(data, data_dummied, "Geography")
       IN  IF g.raised # ""
           THEN /\ qa' = <<g>>
                /\ col' = "Gender"
                /\ err' = [cell |-> "QA", type |-> g.raised, args |-> g.args]
                /\ pc' = "halted"
           ELSE /\ qa' = <<g, y>>
                /\ col' = "Geography"
                /\ IF y.raised # ""
                   THEN /\ err' = [cell |-> "QA", type |-> y.raised, args |-> y.args]
                        /\ pc' = "halted"
                   ELSE /\ pc' = "done"
                        /\ UNCHANGED err
    /\ UNCHANGED <<data, num_stayed, num_exited, idx_stayed, idx_exited,
                   data_observations, alpha, chi2, report, data_dummied, csv,
                   model_data, flips, data_bin, bin_edges, split>>

\* The model notebook reads the prepared file; it can run as soon as the
\* file exists.
ModelLoadData ==
    /\ csv.exists
    /\ model_data = NoFrame
    /\ model_data' = load_data(csv)
    /\ UNCHANGED <<data, pc, col, num_stayed, num_exited, idx_stayed, idx_exited,
                   data_observations, alpha, chi2, report, data_dummied, csv, qa,
                   err, flips, data_bin, bin_edges, split>>

\* Fault injection: one indicator cell of the encoded dataset is flipped
\* after encoding and before QA.
Corrupt ==
    /\ pc = "QA"
    /\ flips < MaxFlips
    /\ \E i \in DOMAIN data_dummied.rows :
         \E n \in Range(data_dummied.columns) \ Range(Columns) :
            data_dummied' = [data_dummied EXCEPT !.rows[i][n] = 1 - @]
    /\ flips' = flips + 1
    /\ UNCHANGED <<data, pc, col, num_stayed, num_exited, idx_stayed, idx_exited,
                   data_observations, alpha, chi2, report, csv, qa, err,
                   model_data, data_bin, bin_edges, split>>

Next ==
    \/ TestGeography
    \/ TestGender
    \/ TestNumOfProducts
    \/ FeatureEngineering
    \/ QualityAssurance
    \/ ModelLoadData

NextFault == Next \/ Corrupt

Spec == Init /\ [][Next]_vars

(***************************************************************************)
(* chi2_test on its own: one call on a table of counts.                    *)
(***************************************************************************)
\* The counts of the Geography cell (exited and stayed per country).
GeographyExited == <<810, 814, 413>>
GeographyStayed == <<4204, 1695, 2064>>

\* The two-category counts of the HasCrCard reference result.
HasCrCardExited == <<1937, 419>>
HasCrCardStayed == <<4799, 2845>>

\* A table as wide as the Age test's: the 17 bins without the lowest, the
\* last one empty among the exited customers.
AgeWidthExited == [j \in 1..16 |-> IF j = 16 THEN 0 ELSE 1]
AgeWidthStayed == [j \in 1..16 |-> 1]

InitChi2 ==
    /\ \/ \E k \in 1..MaxCols :
            /\ num_stayed \in [1..k -> 0..MaxCount]
            /\ num_exited \in [1..k -> 0..MaxCount]
       \/ /\ num_stayed \in [1..2 -> 0..MaxPairCount]
          /\ num_exited \in [1..2 -> 0..MaxPairCount]
       \/ num_stayed = GeographyStayed /\ num_exited = GeographyExited
       \/ num_stayed = HasCrCardStayed /\ num_exited = HasCrCardExited
       \/ num_stayed = AgeWidthStayed /\ num_exited = AgeWidthExited
    /\ data = NoFrame
    /\ pc = "chi2_test"
    /\ col = ""
    /\ idx_stayed = <<>>
    /\ idx_exited = <<>>
    /\ data_observations = [index |-> <<>>, exited |-> <<>>, stayed |-> <<>>]
    /\ alpha = 5
    /\ chi2 = NoChi2
    /\ report = <<>>
    /\ data_dummied = NoFrame
    /\ csv = NoFile
    /\ qa = <<>>
    /\ err = NoError
    /\ model_data = NoFrame
    /\ flips = 0
    /\ data_bin = NoBins
    /\ bin_edges = <<>>
    /\ split = NoSplit

\* chi2_stat, p_value, n_dof, ex = chi2_test(num_stayed, num_exited, alpha, verbose=1)
CallChi2 ==
    /\ pc = "chi2_test"
    /\ UNCHANGED <<data, col, num_stayed, num_exited, idx_stayed, idx_exited,
                   data_observations, alpha, data_dummied, csv, qa, model_data,
                   flips, data_bin, bin_edges, split>>
    /\ RunChi2("chi2_test", "returned")

NextChi2 == CallChi2

SpecChi2 == InitChi2 /\ [][NextChi2]_vars

(***************************************************************************)
(* The Age cells (2.2.5): the customers are counted per age bin, the bins  *)
(* are tested together and two pairs of bins are tested on their own; the  *)
(* HasCrCard cell follows.  The datasets of this specification carry the   *)
(* columns these cells read.                                               *)
(***************************************************************************)
AgeColumns == <<"RowNumber", "Age", "HasCrCard", "Exited">>

\* Ages below the first edge, on the first edge, on an inner edge, in the
\* last bin the loop counts, on the last edge and above it.
AgeValues == {9, 10, 15, 94, 95, 97}

AgeRows == [Age : AgeValues, Exited : {0, 1}]

\* The dataframe of the given customers; HasCrCard alternates from row to row.
AgeFrame(seq) ==
    [columns |-> AgeColumns,
     rows |-> [i \in DOMAIN seq |->
                 [n \in Range(AgeColumns) |->
                    IF n = "RowNumber" THEN i
                    ELSE IF n = "HasCrCard" THEN (i \div 2) % 2
                    ELSE seq[i][n]]]]

\* One customer who stayed and one who left in every bin.
FullAgeRows == [i \in 1..34 |-> [Age |-> 10 + 5 * ((i - 1) \div 2), Exited |-> i % 2]]

\* The same, but the customers of the last bin are aged 95, the last edge.
EdgeAgeRows ==
    [i \in 1..34 |-> [Age |-> IF i > 32 THEN 95 ELSE FullAgeRows[i].Age,
                      Exited |-> i % 2]]

\* np.arange(start, stop, step) for a positive step
np_arange(start, stop, step) ==
    [i \in 1..((stop - start + step - 1) \div step) |-> start + (i - 1) * step]

\* np.histogram(a, bins)[0]: every bin is half open but the last one, which
\* also holds the values on the last edge.
np_histogram(a, bins) ==
    [i \in 1..(Len(bins) - 1) |->
       Cardinality({j \in DOMAIN a :
                      /\ bins[i] <= a[j]
                      /\ \/ a[j] < bins[i + 1]
                         \/ i = Len(bins) - 1 /\ a[j] = bins[i + 1]})]

\* data[(data['Exited'] == exited) & (data[col] >= lo) & (data[col] < hi)].shape[0]
CountBetween(df, exited, lo, hi) ==
    Len(SelectSeq(df.rows, LAMBDA r : r.Exited = exited /\ r.Age >= lo /\ r.Age < hi))

\* Mutant of slice_from: nothing is left out.
slice_from_whole(a, start) == a

\* a[start:] of an array, start counted from 0
slice_from(a, start) == SubSeq(a, start + 1, Len(a))

\* ndarray.all(): no element is zero
np_all(a) == \A i \in DOMAIN a : a[i] # 0

\* The cell that bins Age; its assert compares the truth values of two
\* .all() calls.
AgeBinning ==
    /\ pc = "AgeBinning"
    /\ col' = "Age"
    /\ bin_edges' = np_arange(10, 100, 5)
    /\ LET bin_values == np_histogram(Values(data, "Age"), bin_edges')
           B == DOMAIN bin_values
           bins == [ii \in B |->
                      ToString(bin_edges'[ii]) \o "-" \o ToString(bin_edges'[ii + 1])]
           stayed ==
               [ii \in B |-> CountBetween(data, 0, bin_edges'[ii], bin_edges'[ii + 1])]
           exited ==
               [ii \in B |-> CountBetween(data, 1, bin_edges'[ii], bin_edges'[ii + 1])]
           counted == [age_range |-> bins,
                       total_customers |-> bin_values,
                       stayed_total |-> stayed,
                       exited_total |-> exited]
           sums == [ii \in B |-> stayed[ii] + exited[ii]]
       IN  IF np_all(sums) = np_all(bin_values)
           THEN /\ data_bin' =
                      [age_range |-> bins,
                       total_customers |-> bin_values,
                       stayed_total |-> stayed,
                       exited_total |-> exited,
                       exited |-> [ii \in B |-> [num |-> exited[ii],
                                                 den |-> bin_values[ii]]],
                       stayed |-> [ii \in B |-> [num |-> stayed[ii],
                                                 den |-> bin_values[ii]]]]
                /\ pc' = "AgeTest"
                /\ UNCHANGED err
           ELSE /\ data_bin' = counted
                /\ err' = [cell |-> "AgeBinning", type |-> "AssertionError",
                           args |-> <<>>]
                /\ pc' = "halted"
    /\ UNCHANGED <<data, num_stayed, num_exited, idx_stayed, idx_exited,
                   data_observations, alpha, chi2, report, data_dummied, csv, qa,
                   model_data, flips, split>>

\* The test over the bins: .values[1:] leaves the first bin out.
AgeTest ==
    /\ pc = "AgeTest"
    /\ num_stayed' = slice_from(data_bin.stayed_total, 1)
    /\ num_exited' = slice_from(data_bin.exited_total, 1)
    /\ idx_stayed' = slice_from(data_bin.age_range, 1)
    /\ idx_exited' = slice_from(data_bin.age_range, 1)
    /\ UNCHANGED <<data, col, data_observations, alpha, data_dummied, csv, qa,
                   model_data, flips, data_bin, bin_edges, split>>
    /\ RunChi2("AgeTest", "AgePair1")

\* A test of two bins: data_bin.loc[[cat_1, cat_2], :], rows labelled from 0.
AgePair(cell, cat_1, cat_2, next) ==
    /\ pc = cell
    /\ num_stayed' = <<data_bin.stayed_total[cat_1 + 1], data_bin.stayed_total[cat_2 + 1]>>
    /\ num_exited' = <<data_bin.exited_total[cat_1 + 1], data_bin.exited_total[cat_2 + 1]>>
    /\ idx_stayed' = <<data_bin.age_range[cat_1 + 1], data_bin.age_range[cat_2 + 1]>>
    /\ idx_exited' = <<data_bin.age_range[cat_1 + 1], data_bin.age_range[cat_2 + 1]>>
    /\ UNCHANGED <<data, col, data_observations, alpha, data_dummied, csv, qa,
                   model_data, flips, data_bin, bin_edges, split>>
    /\ RunChi2(cell, next)

AgePair1 == AgePair("AgePair1", 6, 11, "AgePair2")

AgePair2 == AgePair("AgePair2", 3, 8, "HasCrCard")

\* Cell 2.2.6
TestHasCrCard == TestCategorical("HasCrCard", "FeatureEngineering")

\* The state before the Age cell, but for alpha.
InitAgeData ==
    /\ \/ \E k \in 0..MaxAgeRows : \E s \in [1..k -> AgeRows] : data = AgeFrame(s)
       \/ data = AgeFrame(FullAgeRows)
       \/ data = AgeFrame(EdgeAgeRows)
    /\ pc = "AgeBinning"
    /\ col = "NumOfProducts"
    /\ num_stayed = <<>>
    /\ num_exited = <<>>
    /\ idx_stayed = <<>>
    /\ idx_exited = <<>>
    /\ data_observations = [index |-> <<>>, exited |-> <<>>, stayed |-> <<>>]
    /\ chi2 = NoChi2
    /\ report = <<>>
    /\ data_dummied = NoFrame
    /\ csv = NoFile
    /\ qa = <<>>
    /\ err = NoError
    /\ model_data = NoFrame
    /\ flips = 0
    /\ data_bin = NoBins
    /\ bin_edges = <<>>
    /\ split = NoSplit

\* alpha is bound by the test cells above the Age cell.
InitAge == InitAgeData /\ alpha = 5

NextAge ==
    \/ AgeBinning
    \/ AgeTest
    \/ AgePair1
    \/ AgePair2
    \/ TestHasCrCard

SpecAge == InitAge /\ [][NextAge]_vars

\* The Age cells run after the test cells above them, or first in a fresh
\* kernel, where no cell has bound alpha (0: the name is not bound).
InitOrder == InitAgeData /\ alpha \in {0, 5}

SpecOrder == InitOrder /\ [][NextAge]_vars

SpecFault == InitFault /\ [][NextFault]_vars

(***************************************************************************)
(* The missing values cell (2.1) in front of the test cells, over datasets *)
(* in which a Gender is null or the word 'missing'.  What the cell prints  *)
(* is not kept.                                                            *)
(***************************************************************************)
ValidateRows ==
    [Geography : {"France"}, Gender : {"Female", NaN, "missing"}, NumOfProducts : {1}]

\* data.dtypes[c]: a column of strings, with or without nulls, is object; a
\* column of nulls only is float64.
dtype(df, c) ==
    IF c \notin ObjectCols THEN "int64"
    ELSE IF df.rows = <<>> \/ \E i \in DOMAIN df.rows : df.rows[i][c] # NaN
    THEN "object"
    ELSE "float64"

\* The loop over the object columns prints their value counts; it binds the
\* global col and nothing else.
MissingValues ==
    /\ pc = "MissingValues"
    /\ LET cols_to_check == SelectSeq(data.columns, LAMBDA c : dtype(data, c) = "object")
       IN  col' = IF cols_to_check = <<>> THEN col
                  ELSE cols_to_check[Len(cols_to_check)]
    /\ pc' = "Geography"
    /\ UNCHANGED <<data, num_stayed, num_exited, idx_stayed, idx_exited,
                   data_observations, alpha, chi2, report, data_dummied, csv, qa,
                   err, model_data, flips, data_bin, bin_edges, split>>

InitValidate ==
    /\ LoadAlternating(ValidateRows, MaxRows)
    /\ pc = "MissingValues"
    /\ InitNames

NextValidate == MissingValues \/ Next

SpecValidate == InitValidate /\ [][NextValidate]_vars

(***************************************************************************)
(* The model notebook: select_features and train_test_split with its QA    *)
(* asserts, over the file of any encoded dataset.  A part of a frame keeps *)
(* the index labels (0, 1, ...) of the rows it was taken from.             *)
(***************************************************************************)
\* The features of the notebook among the columns of the model.
features ==
    <<"NumOfProducts", "Gender_Female", "Geography_France", "Geography_Germany",
      "Geography_Spain">>

label_col == "Exited"

SplitRows == [Geography : GeographyLabels, Gender : {"Female"}, NumOfProducts : {1}]

\* Model_002.select_features(features, label_col, dataset): dataset[features]
\* and dataset[label_col]; a name that is no column raises KeyError.
select_features(feats, label, dataset) ==
    IF \E i \in DOMAIN feats : feats[i] \notin Range(dataset.columns)
    THEN Raised("KeyError",
                SelectSeq(feats, LAMBDA n : n \notin Range(dataset.columns)))
    ELSE IF label \notin Range(dataset.columns)
    THEN Raised("KeyError", <<label>>)
    ELSE Returned(
           [data_features |->
               [columns |-> feats,
                index |-> [i \in DOMAIN dataset.rows |-> i - 1],
                rows |-> [i \in DOMAIN dataset.rows |->
                            [n \in Range(feats) |-> dataset.rows[i][n]]]],
            data_labels |->
               [index |-> [i \in DOMAIN dataset.rows |-> i - 1],
                values |-> [i \in DOMAIN dataset.rows |-> dataset.rows[i][label]]]])

\* The orders of n samples a shuffle can give.
rng_permutation(n) ==
    {p \in [1..n -> 1..n] : \A i, j \in 1..n : p[i] = p[j] => i = j}

\* Mutant of take_series: the values are taken from the front, whatever the
\* positions.
take_series_front(ser, idx) ==
    [index |-> [k \in DOMAIN idx |-> ser.index[idx[k]]],
     values |-> [k \in DOMAIN idx |-> ser.values[k]]]

\* _safe_indexing of a Series: the elements at the given positions.
take_series(ser, idx) ==
    [index |-> [k \in DOMAIN idx |-> ser.index[idx[k]]],
     values |-> [k \in DOMAIN idx |-> ser.values[idx[k]]]]

\* _safe_indexing of a DataFrame: the rows at the given positions.
take_frame(df, idx) ==
    [columns |-> df.columns,
     index |-> [k \in DOMAIN idx |-> df.index[idx[k]]],
     rows |-> [k \in DOMAIN idx |-> df.rows[idx[k]]]]

\* train_test_split(X, y, test_size=tenths/10, random_state=...) with the
\* order perm the shuffle gives: n_test = ceil(test_size * n), the rest is
\* the training set; an empty training set raises.
train_test_split(X, y, tenths, perm) ==
    LET n == Len(X.rows)
        n_test == (tenths * n + 9) \div 10
        n_train == n - n_test
    IN  IF n_train = 0
        THEN Raised("ValueError", <<"the resulting train set will be empty">>)
        ELSE LET test == SubSeq(perm, 1, n_test)
                 train == SubSeq(perm, n_test + 1, n_test + n_train)
             IN  Returned([X_train |-> take_frame(X, train),
                           X_test |-> take_frame(X, test),
                           y_train |-> take_series(y, train),
                           y_test |-> take_series(y, test)])

SelectFeatures ==
    /\ pc = "select_features"
    /\ LET r == select_features(features, label_col, model_data)
       IN  IF r.raised # ""
           THEN /\ err' = [cell |-> "select_features", type |-> r.raised,
                           args |-> r.args]
                /\ pc' = "halted"
                /\ UNCHANGED split
           ELSE /\ split' = [X |-> r.ret.data_features, y |-> r.ret.data_labels]
                /\ pc' = "train_test_split"
                /\ UNCHANGED err
    /\ UNCHANGED <<data, col, num_stayed, num_exited, idx_stayed, idx_exited,
                   data_observations, alpha, chi2, report, data_dummied, csv, qa,
                   model_data, flips, data_bin, bin_edges>>

\* fraction_test = 0.4; the two asserts follow the split.
TrainTestSplit ==
    /\ pc = "train_test_split"
    /\ \E perm \in rng_permutation(Len(split.X.rows)) :
          LET r == train_test_split(split.X, split.y, 4, perm)
          IN  IF r.raised # ""
              THEN /\ err' = [cell |-> "train_test_split", type |-> r.raised,
                              args |-> r.args]
                   /\ pc' = "halted"
                   /\ UNCHANGED split
              ELSE /\ split' = [X |-> split.X, y |-> split.y,
                                X_train |-> r.ret.X_train, X_test |-> r.ret.X_test,
                                y_train |-> r.ret.y_train, y_test |-> r.ret.y_test]
                   /\ IF /\ Len(r.ret.X_train.columns) = Len(r.ret.X_test.columns)
                         /\ Len(r.ret.X_train.rows) + Len(r.ret.X_test.rows)
                               = Len(split.X.rows)
                      THEN pc' = "split_done" /\ UNCHANGED err
                      ELSE /\ pc' = "halted"
                           /\ err' = [cell |-> "train_test_split",
                                      type |-> "AssertionError", args |-> <<>>]
    /\ UNCHANGED <<data, col, num_stayed, num_exited, idx_stayed, idx_exited,
                   data_observations, alpha, chi2, report, data_dummied, csv, qa,
                   model_data, flips, data_bin, bin_edges>>

\* The model notebook has loaded the file of an encoded dataset.
InitSplit ==
    /\ LoadAlternating(SplitRows, MaxSplitRows)
    /\ data_dummied = get_dummies(get_dummies(data, "Gender").ret, "Geography").ret
    /\ csv = save_data_prepared(data_dummied)
    /\ model_data = load_data(csv)
    /\ pc = "select_features"
    /\ col = ""
    /\ num_stayed = <<>>
    /\ num_exited = <<>>
    /\ idx_stayed = <<>>
    /\ idx_exited = <<>>
    /\ data_observations = [index |-> <<>>, exited |-> <<>>, stayed |-> <<>>]
    /\ alpha = 0
    /\ chi2 = NoChi2
    /\ report = <<>>
    /\ qa = <<>>
    /\ err = NoError
    /\ flips = 0
    /\ data_bin = NoBins
    /\ bin_edges = <<>>
    /\ split = NoSplit

NextSplit == SelectFeatures \/ TrainTestSplit

SpecSplit == InitSplit /\ [][NextSplit]_vars

(***************************************************************************)
(* Properties                                                              *)
(***************************************************************************)
\* The name of the indicator column of label l of column c.
Ind(c, l) == c \o "_" \o Str(c, l)

\* The columns get_dummies can be asked to encode (RowNumber identifies the rows).
EncodableCols == {"Geography", "Gender", "NumOfProducts"}

\* The columns the feature engineering cell encodes.
EncodedCols == {"Gender", "Geography"}

Encoded == data_dummied # NoFrame

\* Every label's indicator column of d sums to the label's count in dat[c].
CountsAgree(dat, d, c) ==
    \A l \in Labels(dat, c) :
       /\ Ind(c, l) \in Range(d.columns)
       /\ Sum(Values(d, Ind(c, l))) = Count(Values(dat, c), l)

\* C1: count round trip. For every dataset and every label L observed in
\* column C the indicator column C_L of get_dummies(data, C) sums to the
\* number of rows whose C is L, and QA_dummied_features(data,
\* get_dummies(data, C), C) returns normally; in the run of the notebook the
\* encoded dataset agrees with data on both encoded columns and the QA cell
\* does not raise.
C1_CountRoundTrip ==
    /\ pc = "Geography" =>
          \A c \in EncodableCols :
             LET d == get_dummies(data, c).ret
             IN  /\ CountsAgree(data, d, c)
                 /\ QA_dummied_features(data, d, c).raised = ""
    /\ Encoded => \A c \in EncodedCols : CountsAgree(data, data_dummied, c)
    /\ qa # <<>> =>
          /\ pc = "done"
          /\ Len(qa) = 2
          /\ \A k \in DOMAIN qa : qa[k].raised = ""

\* C1 witness: the QA cell has passed on a dataset with a single Gender and
\* three countries.
C1_Witness ==
    /\ pc = "done"
    /\ Cardinality(Labels(data, "Gender")) = 1
    /\ Cardinality(Labels(data, "Geography")) = 3

\* ret has the rows of dat, in the same order.
RowsConserved(dat, ret) ==
    /\ Len(ret.rows) = Len(dat.rows)
    /\ \A i \in DOMAIN ret.rows : ret.rows[i]["RowNumber"] = dat.rows[i]["RowNumber"]

\* C2: row conservation. get_dummies(df, colname) returns as many rows as df
\* has, in the same order, for every dataset and column; so does the encoding
\* of Gender and then Geography by the feature engineering cell.
C2_RowConservation ==
    /\ pc = "Geography" =>
          \A c \in EncodableCols : RowsConserved(data, get_dummies(data, c).ret)
    /\ Encoded => RowsConserved(data, data_dummied)

\* C2 witness: a dataset of several rows, one with a missing Gender, has been
\* encoded.
C2_Witness ==
    /\ Encoded
    /\ Len(data.rows) >= 3
    /\ \E i \in DOMAIN data.rows : data.rows[i]["Gender"] = NaN

\* ret is dat with the columns in cs replaced by one indicator column per
\* observed label, appended; the other columns keep order and values.
ReplacedByIndicators(dat, cs, ret) ==
    LET kept == SelectSeq(dat.columns, LAMBDA n : n \notin cs)
        new == UNION {{Ind(c, l) : l \in Labels(dat, c)} : c \in cs}
    IN  /\ Len(ret.columns) = Len(kept) + Cardinality(new)
        /\ Range(ret.columns) = Range(kept) \cup new
        /\ \A c \in cs :
              /\ c \notin Range(ret.columns)
              /\ Cardinality({n \in Range(ret.columns) :
                                \E l \in Labels(dat, c) : n = Ind(c, l)})
                   = Cardinality(Labels(dat, c))
        /\ SelectSeq(ret.columns, LAMBDA n : n \in Range(kept)) = kept
        /\ Len(ret.rows) = Len(dat.rows)
        /\ \A i \in DOMAIN dat.rows :
              \A n \in Range(kept) : ret.rows[i][n] = dat.rows[i][n]

\* C3: get_dummies(df, colname) creates exactly one indicator column per
\* distinct label observed in df[colname], named colname_label, removes
\* colname and leaves values and relative order of the other columns
\* unchanged.
C3_OneColumnPerLabel ==
    /\ pc = "Geography" =>
          \A c \in EncodableCols :
             ReplacedByIndicators(data, {c}, get_dummies(data, c).ret)
    /\ Encoded => ReplacedByIndicators(data, EncodedCols, data_dummied)

\* C3 witness: the encoded dataset of a single-Gender dataset with three
\* countries (one Gender indicator, three Geography indicators).
C3_Witness ==
    /\ Encoded
    /\ Cardinality(Labels(data, "Gender")) = 1
    /\ Cardinality(Labels(data, "Geography")) = 3
    /\ Len(data_dummied.columns) = 7

\* C4: in the encoded dataset every row has, among the indicators of one
\* encoded column, exactly one equal to 1, that of the row's original label;
\* with two Gender labels Gender_Female is the complement of Gender_Male.
C4_ExactlyOneIndicator ==
    Encoded =>
       \A i \in DOMAIN data_dummied.rows :
          /\ \A c \in EncodedCols :
                LET ind == {Ind(c, l) : l \in Labels(data, c)}
                IN  /\ Cardinality({n \in ind : data_dummied.rows[i][n] = 1}) = 1
                    /\ \E n \in ind :
                          /\ n = Ind(c, data.rows[i][c])
                          /\ data_dummied.rows[i][n] = 1
          /\ Labels(data, "Gender") = GenderLabels =>
                data_dummied.rows[i]["Gender_Female"]
                   = 1 - data_dummied.rows[i]["Gender_Male"]

\* C5: get_dummies never mutates its input: no cell, the feature engineering
\* cell included, changes data.
C5_InputNotMutated == [][data' = data]_vars

\* C5 witness: after the feature engineering cell data still has its own
\* columns, Gender and Geography among them, and no indicator column.
C5_Witness ==
    /\ pc = "QA"
    /\ Encoded
    /\ data.columns = Columns
    /\ Len(data.rows) >= 2
    /\ "Gender_Female" \in Range(data_dummied.columns)

\* The QA cell has run to its end or to a failed assert.
QARan == pc = "done" \/ (pc = "halted" /\ err.cell = "QA")

\* Some indicator column of encoded column c does not sum to its label's count.
Mismatch(c) ==
    \E l \in Labels(data, c) :
       Sum(Values(data_dummied, Ind(c, l))) # Count(Values(data, c), l)

C7_EmittedOnlyAfterQA ==
    /\ csv.exists => pc = "done"
    /\ model_data # NoFrame => pc = "done"

\* A test cell was the last cell to bind col, num_stayed and num_exited.
Tested == col # "" /\ qa = <<>>

\* C8: the contingency table of the NumOfProducts cell has one column per
\* category key present in either outcome group, with the group's count of
\* that key, 0 where the key is missing from the group.
C8_OuterJoinZeroFill ==
    (Tested /\ col = "NumOfProducts") =>
       LET stayed == Where(data, "Exited", 0)
           exited == Where(data, "Exited", 1)
           keys == Labels(stayed, col) \cup Labels(exited, col)
           idx == data_observations.index
       IN  /\ Range(idx) = keys
           /\ Len(idx) = Cardinality(keys)
           /\ Len(num_stayed) = Len(idx)
           /\ Len(num_exited) = Len(idx)
           /\ \A i \in DOMAIN idx :
                 /\ num_exited[i] = Count(Values(exited, col), idx[i])
                 /\ num_stayed[i] = Count(Values(stayed, col), idx[i])
                 /\ data_observations.exited[i] = num_exited[i]
                 /\ data_observations.stayed[i] = num_stayed[i]

\* C8 witness: the NumOfProducts test has run on a dataset with a category
\* only among the exited and another only among the stayed customers.
C8_Witness ==
    /\ Tested
    /\ col = "NumOfProducts"
    /\ pc = "FeatureEngineering"
    /\ \E i \in DOMAIN num_exited : num_exited[i] = 0 /\ num_stayed[i] > 0
    /\ \E i \in DOMAIN num_exited : num_stayed[i] = 0 /\ num_exited[i] > 0

\* C9: for every tested feature the two count vectors passed to chi2_test
\* have equal length and position i of both refers to the same label, in
\* label-sorted order.
C9_ColumnsAligned ==
    Tested =>
       /\ Len(num_stayed) = Len(num_exited)
       /\ idx_stayed = idx_exited
       /\ \A i, j \in DOMAIN idx_stayed :
             i < j => SortKey(col, idx_stayed[i]) < SortKey(col, idx_stayed[j])

\* C10: the cells of the contingency table sum to the number of exited plus
\* stayed observations of the feature, and the two cells of each column sum
\* to the number of observations of the column's category.
C10_Margins ==
    Tested =>
       LET L == Labels(data, col)
           cats == SortByKey(L, [l \in L |-> SortKey(col, l)])
           N == Len(SelectSeq(Where(data, "Exited", 1).rows, LAMBDA r : ~isnull(col, r[col])))
           M == Len(SelectSeq(Where(data, "Exited", 0).rows, LAMBDA r : ~isnull(col, r[col])))
       IN  /\ Sum(num_exited) + Sum(num_stayed) = N + M
           /\ Len(num_exited) = Len(cats)
           /\ Len(num_stayed) = Len(cats)
           /\ \A i \in DOMAIN cats :
                 num_exited[i] + num_stayed[i] = Count(Values(data, col), cats[i])

(***************************************************************************)
(* Properties of chi2_test                                                 *)
(***************************************************************************)
\* chi2_test has been called on num_stayed and num_exited.
Chi2Called == pc \in {"returned", "halted"}

\* A category occurs among the exited (positive) customers only.
PositiveOnly ==
    \E j \in DOMAIN num_exited :
       j \in DOMAIN num_stayed /\ num_exited[j] > 0 /\ num_stayed[j] = 0

\* A row total or a column total of the observed table is zero.
ZeroMargin ==
    \/ Sum(num_exited) = 0
    \/ Sum(num_stayed) = 0
    \/ \E j \in DOMAIN num_exited : num_exited[j] + num_stayed[j] = 0

\* C11 as stated: a table with a category present only in the positive group
\* makes chi2_test raise; no statistic is returned or reported for it.
C11_PositiveOnlyRaises ==
    (Chi2Called /\ PositiveOnly) => (pc = "halted" /\ report = <<>>)

\* C11 amended: a table with a category present only in the positive group
\* is tested like any other table.  chi2_test returns and reports a
\* statistic, with the category's column counted in the degrees of freedom,
\* unless a row total or a column total of the table is zero; then, and only
\* then, it raises a ValueError and reports nothing.
C11_PositiveOnlyTested ==
    (Chi2Called /\ PositiveOnly) =>
       /\ pc = "returned" <=> ~ZeroMargin
       /\ pc = "returned" =>
             /\ chi2.chi2_stat # NaNf
             /\ chi2.n_dof = Len(num_exited) - 1
             /\ Len(report) = 1
             /\ report[1].chi2_stat = chi2.chi2_stat
       /\ pc = "halted" =>
             /\ err.type = "ValueError"
             /\ report = <<>>

\* C11 witness: chi2_test returned a positive statistic for a table with a
\* category that only exited customers have.
C11_Witness ==
    /\ pc = "returned"
    /\ PositiveOnly
    /\ chi2.chi2_stat > 0

\* C12: chi2_test fails with an error, returning and reporting no statistic,
\* p-value or degrees of freedom, whenever a row total or a column total of
\* the observed table is zero.
C12_ZeroMarginRaises ==
    (Chi2Called /\ ZeroMargin) =>
       /\ pc = "halted"
       /\ err.type = "ValueError"
       /\ chi2 = NoChi2
       /\ report = <<>>

\* C15: the degrees of freedom chi2_test returns and prints for a table of
\* two rows and k columns are (2-1)*(k-1), every column passed in counted:
\* 2 for the three countries, 15 for a table of 16 columns.
C15_DegreesOfFreedom ==
    pc = "returned" =>
       /\ chi2.n_dof = (2 - 1) * (Len(num_exited) - 1)
       /\ report[1].n_dof = chi2.n_dof
       /\ num_exited = GeographyExited => chi2.n_dof = 2
       /\ num_exited = AgeWidthExited => chi2.n_dof = 15

\* C15 witness: a table of 16 columns, one of them zero among the exited
\* customers, got 15 degrees of freedom.
C15_Witness ==
    /\ pc = "returned"
    /\ Len(num_exited) = 16
    /\ \E j \in DOMAIN num_exited : num_exited[j] = 0
    /\ chi2.n_dof = 15

\* The sum of a sequence of numbers, by halves.
RECURSIVE BigSum(_)
BigSum(terms) ==
    IF Len(terms) = 0 THEN <<>>
    ELSE IF Len(terms) = 1 THEN terms[1]
    ELSE LET h == Len(terms) \div 2
         IN  BigAdd(BigSum(SubSeq(terms, 1, h)),
                    BigSum(SubSeq(terms, h + 1, Len(terms))), 0)

\* The Pearson sum of a table with grand total n: the sum over the cells of
\* (O - E)^2 / E with E = r * c / n.  Multiplied out it is the sum of
\* n * O^2 / (r * c) less n.  PearsonCells is the first sum in millionths,
\* each cell rounded down.
PearsonCells(observed) ==
    LET k == Len(observed[1])
        n == Sum(observed[1]) + Sum(observed[2])
    IN  BigSum([m \in 1..(2 * k) |->
                  LET i == ((m - 1) \div k) + 1
                      j == ((m - 1) % k) + 1
                      O == observed[i][j]
                  IN  BigDiv(BigDiv(BigMul(BigMul(BigMul(Big(O), O), n), 1000000),
                                    Sum(observed[i])).q,
                             observed[1][j] + observed[2][j]).q])

\* stat, in millionths and rounded down cell by cell, is the Pearson sum of
\* the table (nan where the sum is 0/0): both roundings lose less than one
\* millionth per cell.
IsPearsonSum(stat, observed) ==
    LET k == Len(observed[1])
        n == Sum(observed[1]) + Sum(observed[2])
    IN  IF n = 0 THEN stat = NaNf
        ELSE /\ stat # NaNf
             /\ LET cells == PearsonCells(observed)
                    total == BigMul(Big(n), 1000000)
                IN  /\ BigCmp(BigAdd(cells, Big(2 * k), 0),
                              BigAdd(total, Big(stat), 0)) > 0
                    /\ BigCmp(cells, BigAdd(total, Big(stat + 2 * k), 0)) < 0

\* ex has the shape and the row and column totals of observed.
SameMargins(ex, observed) ==
    /\ Len(ex) = 2
    /\ \A i \in 1..2 :
          /\ Len(ex[i]) = Len(observed[i])
          /\ \A j \in DOMAIN ex[i] : ex[i][j].den # 0
          /\ Sum([j \in DOMAIN ex[i] |-> ex[i][j].num])
                = Sum(observed[i]) * ex[i][1].den
    /\ \A j \in DOMAIN ex[1] :
          ex[1][j].num + ex[2][j].num
             = (observed[1][j] + observed[2][j]) * ex[1][j].den

IsTable(exited, stayed) == num_exited = exited /\ num_stayed = stayed

\* C18: for the exited counts 810, 814, 413 and the stayed counts 4204, 1695,
\* 2064 of the three countries chi2_test returns a statistic between 301 and
\* 302 with 2 degrees of freedom and a p-value below 0.05, and reports the
\* null hypothesis rejected.
C18_GeographyReference ==
    (Chi2Called /\ IsTable(GeographyExited, GeographyStayed)) =>
       /\ pc = "returned"
       /\ chi2.chi2_stat > 301000000
       /\ chi2.chi2_stat + 6 < 302000000
       /\ chi2.n_dof = 2
       /\ p_lt(chi2.p_value, 5)
       /\ report[1].null_hypothesis = "rejected"

\* C18 witness: chi2_test returned for the table of the three countries.
C18_Witness == pc = "returned" /\ IsTable(GeographyExited, GeographyStayed)

\* C19 as stated: for the two-category table with positive counts 1937, 419
\* and negative counts 4799, 2845 chi2_test yields a statistic below 3.84
\* with 1 degree of freedom, so a p-value above 0.05, and the feature is
\* reported as not significant.
C19_HasCrCardNotSignificant ==
    (Chi2Called /\ IsTable(HasCrCardExited, HasCrCardStayed)) =>
       /\ pc = "returned"
       /\ chi2.n_dof = 1
       /\ chi2.chi2_stat + 4 < chi2_isf05[1]
       /\ ~p_lt(chi2.p_value, 5)
       /\ report[1].null_hypothesis = "not rejected"

\* C19 amended: for that table chi2_test yields 1 degree of freedom and a
\* continuity-corrected statistic between 308 and 309, far above 3.84, so a
\* p-value below 0.05, and the feature is reported as significant.
C19_HasCrCardSignificant ==
    (Chi2Called /\ IsTable(HasCrCardExited, HasCrCardStayed)) =>
       /\ pc = "returned"
       /\ chi2.n_dof = 1
       /\ chi2.chi2_stat > 308000000
       /\ chi2.chi2_stat + 4 < 309000000
       /\ p_lt(chi2.p_value, 5)
       /\ report[1].null_hypothesis = "rejected"

\* C19 witness: chi2_test returned for the two-category table.
C19_Witness == pc = "returned" /\ IsTable(HasCrCardExited, HasCrCardStayed)

\* The Age cell has counted the bins.
Binned == data_bin # NoBins

\* The bins [edge_i, edge_{i+1}) that hold the age a.
BinsOf(a) ==
    {ii \in 1..(Len(bin_edges) - 1) : bin_edges[ii] <= a /\ a < bin_edges[ii + 1]}

\* C20: binning puts every Age into exactly one interval
\* [edge_i, edge_{i+1}), so the stayed and exited counts summed over all bins
\* equal the number of rows of the dataset.
C20_RowsConserved ==
    Binned =>
       /\ \A i \in DOMAIN data.rows : Cardinality(BinsOf(data.rows[i].Age)) = 1
       /\ Sum(data_bin.stayed_total) + Sum(data_bin.exited_total)
             = Len(data.rows)

\* A significance test has failed on a table with a zero margin.
DegenerateFailure ==
    /\ err.type = "ValueError"
    /\ err.args = <<"expected frequencies has a zero element">>

\* C13: a degenerate-table failure of one feature's test does not stop the
\* run: the tests of the remaining features still run.
C13_DegenerateRecovered == DegenerateFailure => pc # "halted"

\* A failure of a step other than a degenerate table has stopped the run.
OtherFailure == pc = "halted" /\ ~DegenerateFailure

\* C14: when a failure other than a degenerate table stops the run, no
\* significance result has been reported, no encoded dataset has been saved
\* and no later step runs.
C14_NothingEmittedOnFailure ==
    OtherFailure => (report = <<>> /\ ~csv.exists /\ model_data = NoFrame)

\* The configured range of the Age bins: np.arange(10, 100, 5).
AgeInRange(a) == 10 <= a /\ a < 100

\* C21: the bin edges are 10, 15, 20, ... in strictly increasing order up to
\* and including an edge that is at least the upper bound 100, so every Age
\* from the lower bound to just below the upper bound falls into some bin.
C21_EdgesCoverRange ==
    Binned =>
       /\ \A i \in DOMAIN bin_edges : bin_edges[i] = 10 + (i - 1) * 5
       /\ bin_edges[Len(bin_edges)] >= 100
       /\ \A i \in DOMAIN data.rows :
             AgeInRange(data.rows[i].Age) => BinsOf(data.rows[i].Age) # {}

\* The bins whose two outcome counts do not add up to the histogram count.
UnequalBins ==
    {ii \in DOMAIN data_bin.age_range :
       data_bin.stayed_total[ii] + data_bin.exited_total[ii]
          # data_bin.total_customers[ii]}

\* C22: in every bin stayed_total + exited_total equals total_customers, the
\* histogram count of the bin, also when an Age equals the last bin edge.
C22_BinTotals == Binned => UnequalBins = {}

\* C30: whenever some bin has stayed_total + exited_total different from
\* total_customers, the assert of the binning cell fails and the Age test
\* does not run.
C30_AssertEffective ==
    (Binned /\ UnequalBins # {}) =>
       (pc = "halted" /\ err.cell = "AgeBinning" /\ err.type = "AssertionError")

\* The Age test cell has run.
AgeTested == pc = "AgePair1" \/ (pc = "halted" /\ err.cell = "AgeTest")

\* C23: the lowest bin stays in the bin table and is left out of the Age
\* test: chi2_test receives the counts of bins 2..n of both groups, in bin
\* order, and no other bin is dropped.
C23_LowestBinExcluded ==
    AgeTested =>
       LET n == Len(bin_edges) - 1
       IN  /\ Len(data_bin.age_range) = n
           /\ data_bin.age_range[1] = "10-15"
           /\ data_bin.stayed_total[1] = CountBetween(data, 0, 10, 15)
           /\ data_bin.exited_total[1] = CountBetween(data, 1, 10, 15)
           /\ num_stayed = [i \in 1..(n - 1) |-> data_bin.stayed_total[i + 1]]
           /\ num_exited = [i \in 1..(n - 1) |-> data_bin.exited_total[i + 1]]
           /\ pc = "AgePair1" => chi2.f_obs = <<num_exited, num_stayed>>

\* C23 witness: the Age test has returned for a dataset with customers in
\* the lowest bin and in the other bins.
C23_Witness ==
    /\ pc = "AgePair1"
    /\ data_bin.stayed_total[1] > 0
    /\ data_bin.exited_total[1] > 0
    /\ \A i \in DOMAIN num_stayed : num_stayed[i] > 0 /\ num_exited[i] > 0

\* C24: the result of the Age test depends only on the counts of the Age
\* bins and the configured alpha 0.05, not on which cells ran before it: it
\* is the same when the Age cells run first as when they run after the
\* other test cells.
C24_AgeTestIndependent ==
    AgeTested =>
       \E build \in Corrections :
          LET r == chi2_test(num_stayed, num_exited, 5, 1, build)
          IN  IF r.raised # ""
              THEN /\ pc = "halted"
                   /\ err = [cell |-> "AgeTest", type |-> r.raised, args |-> r.args]
              ELSE /\ pc = "AgePair1"
                   /\ chi2 = r.ret

\* chi2_test has returned for a table of two columns with a positive total.
PairTested == pc = "returned" /\ chi2.n_dof = 1 /\ chi2.ex[1][1].den > 0

\* The Pearson sum of the table without any correction.
Uncorrected == power_divergence(chi2.f_obs, chi2.ex, "none")

\* 2 * total * |observed - expected|, the same in all four cells.
PairDeviation ==
    2 * Abs(chi2.f_obs[1][1] * chi2.ex[1][1].den - chi2.ex[1][1].num)

\* The sum over the cells of (|observed - expected| - 0.5)^2 / expected.
MovedByHalf ==
    LET f == chi2.f_obs
        n == chi2.ex[1][1].den
        cell(i, j) == Term(Abs(PairDeviation - n), n, Sum(f[i]), f[1][j] + f[2][j])
    IN  cell(1, 1) + cell(1, 2) + cell(2, 1) + cell(2, 2)

\* C27 as stated: for a table of two columns every observed count is moved
\* 0.5 towards its expected value, so the statistic is never larger than the
\* uncorrected Pearson sum and differs from it whenever observed differs
\* from expected.
C27_NeverLarger ==
    PairTested =>
       /\ chi2.chi2_stat = MovedByHalf
       /\ chi2.chi2_stat <= Uncorrected
       /\ PairDeviation # 0 => chi2.chi2_stat # Uncorrected

\* C27 amended: when observed and expected differ by at least 0.5 the
\* counts are moved 0.5 towards the expected values and the statistic is
\* smaller than the uncorrected sum; when they are equal both are 0; in
\* between the statistic is 0 or that of counts moved 0.5, past the expected
\* values.
C27_YatesCorrected ==
    PairTested =>
       LET n == chi2.ex[1][1].den
       IN  /\ PairDeviation >= n =>
                 /\ chi2.chi2_stat = MovedByHalf
                 /\ chi2.chi2_stat < Uncorrected
           /\ PairDeviation = 0 => (chi2.chi2_stat = 0 /\ Uncorrected = 0)
           /\ (0 < PairDeviation /\ PairDeviation < n) =>
                 chi2.chi2_stat \in {0, MovedByHalf}

\* C27 witness: a table of two columns whose counts are at least 0.5 off
\* the expected values was tested.
C27_Witness == PairTested /\ PairDeviation >= chi2.ex[1][1].den /\ chi2.chi2_stat > 0

\* The array a with the elements at i and j exchanged.
Exchanged(a, i, j) ==
    [m \in DOMAIN a |-> IF m = i THEN a[j] ELSE IF m = j THEN a[i] ELSE a[m]]

\* Two calls of chi2_test raise alike or return the same statistic, p-value
\* and degrees of freedom.
SameResult(r, q) ==
    /\ r.raised = q.raised
    /\ r.args = q.args
    /\ r.raised = "" =>
          /\ r.ret.chi2_stat = q.ret.chi2_stat
          /\ r.ret.p_value = q.ret.p_value
          /\ r.ret.n_dof = q.ret.n_dof

\* C28: exchanging the two count vectors, or exchanging two columns in both
\* vectors (hence any permutation of the columns), leaves the statistic, the
\* p-value and the degrees of freedom unchanged; the first row of the
\* returned expected table is that of the exited group, the second that of
\* the stayed group.
C28_Symmetric ==
    Chi2Called =>
       \A build \in Corrections :
          LET r == chi2_test(num_stayed, num_exited, alpha, 1, build)
              k == Len(num_stayed)
          IN  /\ SameResult(r, chi2_test(num_exited, num_stayed, alpha, 1, build))
              /\ \A i, j \in 1..k :
                    SameResult(r, chi2_test(Exchanged(num_stayed, i, j),
                                            Exchanged(num_exited, i, j),
                                            alpha, 1, build))
              /\ (pc = "returned" /\ chi2 = r.ret) =>
                    \A j \in 1..k :
                       /\ chi2.ex[1][j].num
                            = Sum(num_exited) * (num_exited[j] + num_stayed[j])
                       /\ chi2.ex[2][j].num
                            = Sum(num_stayed) * (num_exited[j] + num_stayed[j])

\* C28 witness: chi2_test returned a positive statistic for a table whose
\* groups differ in size and whose columns differ.
C28_Witness ==
    /\ pc = "returned"
    /\ chi2.chi2_stat > 0
    /\ Len(num_stayed) >= 2
    /\ Sum(num_stayed) # Sum(num_exited)
    /\ num_stayed[1] # num_stayed[2]

\* Row i of the encoded dataset has, for column c, indicator 1 in the column
\* of its original label and 0 in the columns of the other labels.
RowEncoded(i, c) ==
    \A l \in Labels(data, c) :
       data_dummied.rows[i][Ind(c, l)] = IF data.rows[i][c] = l THEN 1 ELSE 0

\* C29: whenever QA_dummied_features has returned normally for the encoded
\* columns, every row has indicator 1 in the column of its original label
\* and 0 in those of the other labels, and every row of the original
\* column, a row with a null included, is accounted for by some label.
C29_QARowLevelSound ==
    pc = "done" =>
       \A c \in EncodedCols : \A i \in DOMAIN data.rows :
          /\ RowEncoded(i, c)
          /\ data.rows[i][c] \in Labels(data, c)

\* Some value of an object column is null or the word 'missing'.
Invalid ==
    \E i \in DOMAIN data.rows : \E c \in ObjectCols :
       data.rows[i][c] \in {NaN, "missing"}

\* C25: if a field of the dataset holds a null, or a string field the word
\* 'missing', the run fails in the missing values cell, before any
\* significance test or encoding is performed.
C25_ValidationGates ==
    Invalid =>
       \/ pc = "MissingValues"
       \/ pc = "halted" /\ err.cell = "MissingValues"

\* The part (Xp, yp) holds, row by row, features and label of the rows of
\* the loaded dataset that its index names.
AlignedPart(Xp, yp) ==
    /\ Xp.columns = features
    /\ Len(Xp.rows) = Len(Xp.index)
    /\ yp.index = Xp.index
    /\ \A k \in DOMAIN Xp.index :
          LET row == model_data.rows[Xp.index[k] + 1]
          IN  /\ Xp.rows[k] = [n \in Range(features) |-> row[n]]
              /\ yp.values[k] = row[label_col]

\* C26: the split is a partition of the selected rows: the training rows
\* and the test rows add up to the rows of X, no row is in both parts, both
\* parts have the feature columns of X in the same order, and y_train and
\* y_test hold the labels of the rows of X_train and X_test, row by row.
C26_SplitPartition ==
    pc = "split_done" =>
       LET train == Range(split.X_train.index)
           test == Range(split.X_test.index)
           n == Len(split.X.rows)
       IN  /\ Len(split.X_train.rows) + Len(split.X_test.rows) = n
           /\ Cardinality(train) = Len(split.X_train.rows)
           /\ Cardinality(test) = Len(split.X_test.rows)
           /\ train \cap test = {}
           /\ train \cup test = 0..(n - 1)
           /\ split.X_train.columns = split.X.columns
           /\ split.X_test.columns = split.X.columns
           /\ AlignedPart(split.X_train, split.y_train)
           /\ AlignedPart(split.X_test, split.y_test)

\* C26 witness: a dataset was split into shuffled parts of two rows each
\* whose labels differ.
C26_Witness ==
    /\ pc = "split_done"
    /\ Len(split.X_train.rows) = 2
    /\ split.X_train.index[1] > split.X_train.index[2]
    /\ split.y_train.values[1] # split.y_train.values[2]
    /\ Len(split.X_test.rows) = 2

====
